---- MODULE Spec2Model ----
(***************************************************************************)
(* Model of package dmap (github.com/althk/dmap): a map sharded over a     *)
(* fixed number of shards, each guarded by its own sync.RWMutex.           *)
(*                                                                         *)
(* Client goroutines call Get, Set, Remove, Has, Count and Keys            *)
(* concurrently.  Every statement that touches a lock is a step of its     *)
(* own; the statements a goroutine executes between two lock operations    *)
(* form one step.  Keys starts one worker goroutine per shard.             *)
(*                                                                         *)
(* sync.RWMutex is modelled by the goroutines that hold it for reading     *)
(* (rheld), the goroutine that holds it for writing (wheld) and the writer *)
(* that has announced itself and waits for the readers to leave (wpend):   *)
(* as in Go, a reader arriving after a writer's announcement waits.        *)
(***************************************************************************)
EXTENDS Integers, Sequences, FiniteSets, TLC

\* ---------------------------------------------------------------- bounds
NumThreads == 2      \* client goroutines
NShards    == 2      \* nShards given to New
NumKeys    == 3      \* distinct keys the clients use
MaxVal     == 1      \* values are 0..MaxVal, 0 being V's zero value
MaxCalls   == 3      \* calls invoked in one behaviour

\* ------------------------------------------------------------ the inputs
KeyNames == <<"a", "e", "b", "d", "f", "g", "h">>

Key == {KeyNames[n] : n \in 1..NumKeys}

Val == 0..MaxVal

Threads == 1..NumThreads

\* len(m)
Shards == 0..(NShards - 1)

\* ------------------------------------------------------------- routing
\* checksum[7] of sha1.Sum([]byte(fmt.Sprintf("%v", key)))
Checksum7(k) ==
  CASE k = "a" -> 252 [] k = "e" -> 144 [] k = "b" -> 109 [] k = "d" -> 102
    [] k = "f" -> 52  [] k = "g" -> 192 [] k = "h" -> 222

\* checksum[19] of sha1.Sum([]byte(fmt.Sprintf("%v", key)))
Checksum19(k) ==
  CASE k = "a" -> 184 [] k = "e" -> 127 [] k = "b" -> 152 [] k = "d" -> 116
    [] k = "f" -> 245 [] k = "g" -> 27  [] k = "h" -> 117

RECURSIVE BitOr(_, _, _)
\* x | y on the low n bits
BitOr(x, y, n) ==
  IF n = 0 THEN 0
  ELSE (IF (x % 2) + (y % 2) > 0 THEN 1 ELSE 0)
         + 2 * BitOr(x \div 2, y \div 2, n - 1)

\* the number of values of a byte (checksum is a [20]byte)
HashSpace == 256

\* ShardIndexOf with the hash converted through int8: a hash above 127 is
\* negative, and Go's % keeps the sign of the dividend
ShardIndexOf_signed(c7, c19, n) ==
  LET h == BitOr((c7 * 2) % 256, c19, 8)
  IN  IF h < 128 THEN h % n ELSE -((256 - h) % n)

\* ShardIndexOf with the shift done in int: int(checksum[7])<<1, which does
\* not drop the top bit
ShardIndexOf_wide(c7, c19, n) == BitOr(c7 * 2, c19, 9) % n

\* checksum[7]<<1 | checksum[19] in uint8 arithmetic, then hash % len(m)
ShardIndexOf(c7, c19, n) == BitOr((c7 * 2) % 256, c19, 8) % n

getShardIndex(k) == ShardIndexOf(Checksum7(k), Checksum19(k), NShards)

\* getShard with an off-by-one slip: return m[(i+1) % len(m)]
getShard_next(k) == (getShardIndex(k) + 1) % NShards

getShard(k) == getShardIndex(k)

\* --------------------------------------------------------------- state
VARIABLES
  items,    \* items[s]: Shard.items of shard s, a function on its keys
  count,    \* count[s]: Shard.count of shard s
  rheld,    \* rheld[s]: goroutines holding shard s's mu for reading
  wheld,    \* wheld[s]: goroutines holding shard s's mu for writing
  wpend,    \* wpend[s]: writers that announced themselves in mu.Lock
  pc,       \* pc[t]: where client t is in its call ("idle": in no call)
  op,       \* op[t]: the method client t is executing
  key,      \* key[t]: the call's key argument
  val,      \* val[t]: the call's val argument
  v,        \* v[t]: Get's local v
  ok,       \* ok[t]: Get's local ok
  ci,       \* ci[t]: Count's loop index i
  cnt,      \* cnt[t]: Count's local count
  keys,     \* keys[t]: the slice keys of t's Keys call
  wg,       \* wg[t]: the WaitGroup counter of t's Keys call
  kmu,      \* kmu[t]: workers holding the Mutex mu of t's Keys call
  wpc,      \* wpc[t][s]: where the worker of t's Keys call for shard s is
  todo,     \* todo[t][s]: keys the worker's range loop has yet to visit
  variant,  \* the file Keys is taken from: "part_000" or "dmap.go"
  calls,    \* number of calls invoked so far
  nSet,     \* history: nSet[k] = Set calls invoked with key k
  nRem,     \* history: nRem[k] = Remove calls invoked with key k
  last,     \* history: what the last settled Set/Remove of k left behind
  quiet,    \* history: quiet[t] = no Set/Remove overlaps t's current call
  overlap,  \* history: a Set was invoked while another Set was in flight
  lastW,    \* history: lastW[k] = val of the Set of k that locked last,
            \*          -1 when none did or a Remove of k locked after it
  written,  \* history: written[k] = the vals given to Set calls of k
  always,   \* history: always[t] = keys present all through t's Keys call
  ever,     \* history: ever[t] = keys present at some time in t's Keys call
  cnt0,     \* history: cnt0[t] = sum of the counts when t called Count
  rt        \* a routing computation on its own: New(n), then getShard

shardVars == <<items, count>>
lockVars == <<rheld, wheld, wpend>>
callVars == <<pc, op, key, val>>
getVars == <<v, ok>>
countVars == <<ci, cnt>>
keysVars == <<keys, wg, kmu, wpc, todo, variant>>
histVars == <<calls, nSet, nRem, last, quiet, overlap>>
obsVars == <<lastW, written, always, ever, cnt0>>

vars == <<items, count, rheld, wheld, wpend, pc, op, key, val, v, ok, ci, cnt,
          keys, wg, kmu, wpc, todo, variant, calls, nSet, nRem, last, quiet,
          overlap, lastW, written, always, ever, cnt0, rt>>

\* the goroutine of client t, and the worker Keys starts for shard s
Caller(t) == <<t, -1>>

Worker(t, s) == <<t, s>>

EmptyMap == [k \in {} |-> 0]

NoKey == "-"

Never == [st |-> "never", v |-> 0]

Busy == [st |-> "busy", v |-> 0]

Removed == [st |-> "removed", v |-> 0]

WasSet(x) == [st |-> "set", v |-> x]

\* The repository holds Keys twice: part_000 locks mu around the whole range
\* loop, dmap.go around each append.  Get, Set and Remove are the same in
\* both files but for Shard.count, which only part_000 has.
Variants == {"part_000", "dmap.go"}

\* no routing computation on its own takes place
RtOff == [st |-> "off", n |-> NShards, c7 |-> 0, c19 |-> 0, idx |-> -1]

\* New that allocates one shard too many: make([]*Shard[K, V], nShards+1)
New_extra ==
  /\ items = [s \in 0..NShards |-> EmptyMap]
  /\ count = [s \in 0..NShards |-> 0]
  /\ rheld = [s \in 0..NShards |-> {}]
  /\ wheld = [s \in 0..NShards |-> {}]
  /\ wpend = [s \in 0..NShards |-> {}]

\* New(nShards): nShards shards, each with an empty items map and count 0
New ==
  /\ items = [s \in Shards |-> EmptyMap]
  /\ count = [s \in Shards |-> 0]
  /\ rheld = [s \in Shards |-> {}]
  /\ wheld = [s \in Shards |-> {}]
  /\ wpend = [s \in Shards |-> {}]

Init ==
  /\ New
  /\ pc = [t \in Threads |-> "idle"]
  /\ op = [t \in Threads |-> "none"]
  /\ key = [t \in Threads |-> NoKey]
  /\ val = [t \in Threads |-> 0]
  /\ v = [t \in Threads |-> 0]
  /\ ok = [t \in Threads |-> FALSE]
  /\ ci = [t \in Threads |-> 0]
  /\ cnt = [t \in Threads |-> 0]
  /\ keys = [t \in Threads |-> <<>>]
  /\ wg = [t \in Threads |-> 0]
  /\ kmu = [t \in Threads |-> {}]
  /\ wpc = [t \in Threads |-> [s \in Shards |-> "none"]]
  /\ todo = [t \in Threads |-> [s \in Shards |-> {}]]
  /\ variant \in Variants
  /\ calls = 0
  /\ nSet = [k \in Key |-> 0]
  /\ nRem = [k \in Key |-> 0]
  /\ last = [k \in Key |-> Never]
  /\ quiet = [t \in Threads |-> FALSE]
  /\ overlap = FALSE
  /\ lastW = [k \in Key |-> -1]
  /\ written = [k \in Key |-> {}]
  /\ always = [t \in Threads |-> {}]
  /\ ever = [t \in Threads |-> {}]
  /\ cnt0 = [t \in Threads |-> 0]
  /\ rt = RtOff

\* ------------------------------------------------------- sync.RWMutex
\* mu.RLock() returns: no writer holds mu or has announced itself
RLock(s, g) ==
  /\ wheld[s] = {}
  /\ wpend[s] = {}
  /\ rheld' = [rheld EXCEPT ![s] = @ \cup {g}]
  /\ UNCHANGED <<wheld, wpend>>

\* mu.RUnlock()
RUnlock(s, g) ==
  /\ rheld' = [rheld EXCEPT ![s] = @ \ {g}]
  /\ UNCHANGED <<wheld, wpend>>

\* a Lock that does not keep other writers out
LockAnnounce_open(s, g) ==
  /\ wpend' = [wpend EXCEPT ![s] = @ \cup {g}]
  /\ UNCHANGED <<rheld, wheld>>

\* mu.Lock(), first half: take the writers' mutex and announce the writer
LockAnnounce(s, g) ==
  /\ wheld[s] = {}
  /\ wpend[s] = {}
  /\ wpend' = [wpend EXCEPT ![s] = @ \cup {g}]
  /\ UNCHANGED <<rheld, wheld>>

\* mu.Lock(), second half: returns once the readers have left
LockAcquire(s, g) ==
  /\ g \in wpend[s]
  /\ rheld[s] = {}
  /\ wpend' = [wpend EXCEPT ![s] = @ \ {g}]
  /\ wheld' = [wheld EXCEPT ![s] = @ \cup {g}]
  /\ UNCHANGED rheld

\* mu.Unlock()
Unlock(s, g) ==
  /\ wheld' = [wheld EXCEPT ![s] = @ \ {g}]
  /\ UNCHANGED <<rheld, wpend>>

\* ------------------------------------------------------------ history
\* the keys in the map
PresentKeys == UNION {DOMAIN items[s] : s \in Shards}

\* the sum of the shards' counts
TotalCount == LET RECURSIVE Sum(_)
                  Sum(n) == IF n = 0 THEN 0 ELSE count[n - 1] + Sum(n - 1)
              IN  Sum(NShards)

Mutating(o) == o \in {"Set", "Remove"}

\* a Set or Remove of key k by a client other than t is in flight
OtherMutation(t, k) ==
  \E u \in Threads \ {t} : Mutating(op[u]) /\ key[u] = k

\* bookkeeping when client t invokes method o
Invoke(t, o, k) ==
  /\ calls' = calls + 1
  /\ nSet' = IF o = "Set" THEN [nSet EXCEPT ![k] = @ + 1] ELSE nSet
  /\ nRem' = IF o = "Remove" THEN [nRem EXCEPT ![k] = @ + 1] ELSE nRem
  /\ last' = IF Mutating(o) THEN [last EXCEPT ![k] = Busy] ELSE last
  /\ quiet' = [u \in Threads |->
                 IF u = t THEN \A w \in Threads \ {t} : ~Mutating(op[w])
                 ELSE quiet[u] /\ ~Mutating(o)]
  /\ overlap' = (overlap \/ (o = "Set" /\ \E u \in Threads \ {t} : op[u] = "Set"))
  /\ UNCHANGED rt

\* bookkeeping when client t returns from its call
Settle(t) ==
  /\ last' = IF Mutating(op[t]) /\ ~OtherMutation(t, key[t])
             THEN [last EXCEPT ![key[t]] =
                     IF op[t] = "Set" THEN WasSet(val[t]) ELSE Removed]
             ELSE last
  /\ quiet' = [quiet EXCEPT ![t] = FALSE]
  /\ UNCHANGED <<calls, nSet, nRem, overlap, rt>>

\* client t returns to its caller
Return(t) ==
  /\ pc' = [pc EXCEPT ![t] = "idle"]
  /\ op' = [op EXCEPT ![t] = "none"]
  /\ key' = [key EXCEPT ![t] = NoKey]
  /\ val' = [val EXCEPT ![t] = 0]
  /\ Settle(t)

\* ---------------------------------------------------------- Get, Has
\* a client calls m.Get(k); o = "Has" when the call comes from m.Has(k)
CallGet(t, o, k) ==
  /\ pc[t] = "idle"
  /\ calls < MaxCalls
  /\ o \in {"Get", "Has"}
  /\ pc' = [pc EXCEPT ![t] = "RLock"]
  /\ op' = [op EXCEPT ![t] = o]
  /\ key' = [key EXCEPT ![t] = k]
  /\ Invoke(t, o, k)
  /\ UNCHANGED <<shardVars, lockVars, val, getVars, countVars, keysVars>>
  /\ UNCHANGED obsVars

\* shard := m.getShard(key); shard.mu.RLock()
GetRLock(t) ==
  /\ pc[t] = "RLock"
  /\ RLock(getShard(key[t]), Caller(t))
  /\ pc' = [pc EXCEPT ![t] = "Read"]
  /\ UNCHANGED <<shardVars, op, key, val, getVars, countVars, keysVars,
                 histVars, obsVars, rt>>

\* GetRead that reports every key as found: return v, true
GetRead_found(t) ==
  /\ pc[t] = "Read"
  /\ LET m == items[getShard(key[t])]
     IN  /\ v' = [v EXCEPT ![t] = IF key[t] \in DOMAIN m THEN m[key[t]] ELSE 0]
         /\ ok' = [ok EXCEPT ![t] = TRUE]
  /\ pc' = [pc EXCEPT ![t] = "RUnlock"]
  /\ UNCHANGED <<shardVars, lockVars, op, key, val, countVars, keysVars,
                 histVars, obsVars, rt>>

\* v, ok := shard.items[key]
GetRead(t) ==
  /\ pc[t] = "Read"
  /\ LET m == items[getShard(key[t])]
     IN  IF key[t] \in DOMAIN m
         THEN /\ v' = [v EXCEPT ![t] = m[key[t]]]
              /\ ok' = [ok EXCEPT ![t] = TRUE]
         ELSE /\ v' = [v EXCEPT ![t] = 0]
              /\ ok' = [ok EXCEPT ![t] = FALSE]
  /\ pc' = [pc EXCEPT ![t] = "RUnlock"]
  /\ UNCHANGED <<shardVars, lockVars, op, key, val, countVars, keysVars,
                 histVars, obsVars, rt>>

\* return v, ok (Has: return ok), running the deferred shard.mu.RUnlock()
GetReturn(t) ==
  /\ pc[t] = "RUnlock"
  /\ RUnlock(getShard(key[t]), Caller(t))
  /\ v' = [v EXCEPT ![t] = 0]
  /\ ok' = [ok EXCEPT ![t] = FALSE]
  /\ Return(t)
  /\ UNCHANGED <<shardVars, countVars, keysVars>>
  /\ UNCHANGED obsVars

\* ------------------------------------------------------------------ Set
\* a client calls m.Set(k, x)
CallSet(t, k, x) ==
  /\ pc[t] = "idle"
  /\ calls < MaxCalls
  /\ pc' = [pc EXCEPT ![t] = "Lock"]
  /\ op' = [op EXCEPT ![t] = "Set"]
  /\ key' = [key EXCEPT ![t] = k]
  /\ val' = [val EXCEPT ![t] = x]
  /\ Invoke(t, "Set", k)
  /\ UNCHANGED <<shardVars, lockVars, getVars, countVars, keysVars>>
  /\ written' = [written EXCEPT ![k] = @ \cup {x}]
  /\ UNCHANGED <<lastW, always, ever, cnt0>>

\* SetLock taking the shard's lock for reading: shard.mu.RLock() in Set
SetLock_read(t) ==
  /\ pc[t] = "Lock"
  /\ op[t] = "Set"
  /\ RLock(getShard(key[t]), Caller(t))
  /\ pc' = [pc EXCEPT ![t] = "Body"]
  /\ UNCHANGED <<shardVars, op, key, val, getVars, countVars, keysVars,
                 histVars, obsVars, rt>>

\* shard := m.getShard(key); shard.mu.Lock() announces the writer
SetLock(t) ==
  /\ pc[t] = "Lock"
  /\ op[t] = "Set"
  /\ LockAnnounce(getShard(key[t]), Caller(t))
  /\ pc' = [pc EXCEPT ![t] = "LockWait"]
  /\ UNCHANGED <<shardVars, op, key, val, getVars, countVars, keysVars,
                 histVars, obsVars, rt>>

\* shard.mu.Lock() returns
SetLocked(t) ==
  /\ pc[t] = "LockWait"
  /\ op[t] = "Set"
  /\ LockAcquire(getShard(key[t]), Caller(t))
  /\ pc' = [pc EXCEPT ![t] = "Body"]
  /\ UNCHANGED <<shardVars, op, key, val, getVars, countVars, keysVars,
                 histVars, written, always, ever, cnt0, rt>>
  /\ lastW' = [lastW EXCEPT ![key[t]] = val[t]]

\* SetBody that keeps the value of a key already present
SetBody_keep(t) ==
  /\ pc[t] = "Body"
  /\ op[t] = "Set"
  /\ LET s == getShard(key[t])
         m == items[s]
     IN  /\ items' = [items EXCEPT ![s] =
                        [k \in DOMAIN m \cup {key[t]} |->
                           IF k \in DOMAIN m THEN m[k] ELSE val[t]]]
         /\ count' = [count EXCEPT ![s] = @ + 1]
  /\ pc' = [pc EXCEPT ![t] = "Unlock"]
  /\ UNCHANGED <<lockVars, op, key, val, getVars, countVars, keysVars,
                 histVars, lastW, written, always, cnt0, rt>>
  /\ ever' = [u \in Threads |->
                IF op[u] = "Keys" THEN ever[u] \cup {key[t]} ELSE ever[u]]

\* shard.items[key] = val; shard.count += 1
SetBody(t) ==
  /\ pc[t] = "Body"
  /\ op[t] = "Set"
  /\ LET s == getShard(key[t])
         m == items[s]
     IN  /\ items' = [items EXCEPT ![s] =
                        [k \in DOMAIN m \cup {key[t]} |->
                           IF k = key[t] THEN val[t] ELSE m[k]]]
         /\ count' = [count EXCEPT ![s] = @ + 1]
  /\ pc' = [pc EXCEPT ![t] = "Unlock"]
  /\ UNCHANGED <<lockVars, op, key, val, getVars, countVars, keysVars,
                 histVars, lastW, written, always, cnt0, rt>>
  /\ ever' = [u \in Threads |->
                IF op[u] = "Keys" THEN ever[u] \cup {key[t]} ELSE ever[u]]

\* return, running the deferred shard.mu.Unlock()
SetReturn(t) ==
  /\ pc[t] = "Unlock"
  /\ op[t] = "Set"
  /\ Unlock(getShard(key[t]), Caller(t))
  /\ Return(t)
  /\ UNCHANGED <<shardVars, getVars, countVars, keysVars>>
  /\ UNCHANGED obsVars

\* --------------------------------------------------------------- Remove
\* a client calls m.Remove(k)
CallRemove(t, k) ==
  /\ pc[t] = "idle"
  /\ calls < MaxCalls
  /\ pc' = [pc EXCEPT ![t] = "Lock"]
  /\ op' = [op EXCEPT ![t] = "Remove"]
  /\ key' = [key EXCEPT ![t] = k]
  /\ Invoke(t, "Remove", k)
  /\ UNCHANGED <<shardVars, lockVars, val, getVars, countVars, keysVars>>
  /\ UNCHANGED obsVars

\* shard := m.getShard(key); shard.mu.Lock() announces the writer
RemoveLock(t) ==
  /\ pc[t] = "Lock"
  /\ op[t] = "Remove"
  /\ LockAnnounce(getShard(key[t]), Caller(t))
  /\ pc' = [pc EXCEPT ![t] = "LockWait"]
  /\ UNCHANGED <<shardVars, op, key, val, getVars, countVars, keysVars,
                 histVars, obsVars, rt>>

\* shard.mu.Lock() returns
RemoveLocked(t) ==
  /\ pc[t] = "LockWait"
  /\ op[t] = "Remove"
  /\ LockAcquire(getShard(key[t]), Caller(t))
  /\ pc' = [pc EXCEPT ![t] = "Body"]
  /\ UNCHANGED <<shardVars, op, key, val, getVars, countVars, keysVars,
                 histVars, written, always, ever, cnt0, rt>>
  /\ lastW' = [lastW EXCEPT ![key[t]] = -1]

\* RemoveBody without the delete
RemoveBody_skip(t) ==
  /\ pc[t] = "Body"
  /\ op[t] = "Remove"
  /\ pc' = [pc EXCEPT ![t] = "Unlock"]
  /\ UNCHANGED <<shardVars, lockVars, op, key, val, getVars, countVars,
                 keysVars, histVars, obsVars, rt>>

\* delete(shard.items, key)
RemoveBody(t) ==
  /\ pc[t] = "Body"
  /\ op[t] = "Remove"
  /\ LET s == getShard(key[t])
         m == items[s]
     IN  items' = [items EXCEPT ![s] = [k \in DOMAIN m \ {key[t]} |-> m[k]]]
  /\ pc' = [pc EXCEPT ![t] = "Unlock"]
  /\ UNCHANGED <<count, lockVars, op, key, val, getVars, countVars, keysVars,
                 histVars, lastW, written, ever, cnt0, rt>>
  /\ always' = [u \in Threads |-> always[u] \ {key[t]}]

\* return, running the deferred shard.mu.Unlock()
RemoveReturn(t) ==
  /\ pc[t] = "Unlock"
  /\ op[t] = "Remove"
  /\ Unlock(getShard(key[t]), Caller(t))
  /\ Return(t)
  /\ UNCHANGED <<shardVars, getVars, countVars, keysVars>>
  /\ UNCHANGED obsVars

\* ---------------------------------------------------------------- Count
\* CallCount of a loop that starts at i = 1
CallCount_from1(t) ==
  /\ pc[t] = "idle"
  /\ calls < MaxCalls
  /\ pc' = [pc EXCEPT ![t] = "CountLoop"]
  /\ op' = [op EXCEPT ![t] = "Count"]
  /\ ci' = [ci EXCEPT ![t] = 1]
  /\ cnt' = [cnt EXCEPT ![t] = 0]
  /\ Invoke(t, "Count", NoKey)
  /\ UNCHANGED <<shardVars, lockVars, key, val, getVars, keysVars>>
  /\ cnt0' = [cnt0 EXCEPT ![t] = TotalCount]
  /\ UNCHANGED <<lastW, written, always, ever>>

\* a client calls m.Count(): count := 0; i := 0
CallCount(t) ==
  /\ pc[t] = "idle"
  /\ calls < MaxCalls
  /\ pc' = [pc EXCEPT ![t] = "CountLoop"]
  /\ op' = [op EXCEPT ![t] = "Count"]
  /\ ci' = [ci EXCEPT ![t] = 0]
  /\ cnt' = [cnt EXCEPT ![t] = 0]
  /\ Invoke(t, "Count", NoKey)
  /\ UNCHANGED <<shardVars, lockVars, key, val, getVars, keysVars>>
  /\ cnt0' = [cnt0 EXCEPT ![t] = TotalCount]
  /\ UNCHANGED <<lastW, written, always, ever>>

\* i < len(m): shard := m[i]; shard.mu.RLock()
CountRLock(t) ==
  /\ pc[t] = "CountLoop"
  /\ ci[t] < NShards
  /\ RLock(ci[t], Caller(t))
  /\ pc' = [pc EXCEPT ![t] = "CountRead"]
  /\ UNCHANGED <<shardVars, op, key, val, getVars, countVars, keysVars,
                 histVars, obsVars, rt>>

\* CountRead that assigns instead of adding: count = shard.count
CountRead_assign(t) ==
  /\ pc[t] = "CountRead"
  /\ cnt' = [cnt EXCEPT ![t] = count[ci[t]]]
  /\ pc' = [pc EXCEPT ![t] = "CountRUnlock"]
  /\ UNCHANGED <<shardVars, lockVars, op, key, val, getVars, ci, keysVars,
                 histVars, obsVars, rt>>

\* count += shard.count
CountRead(t) ==
  /\ pc[t] = "CountRead"
  /\ cnt' = [cnt EXCEPT ![t] = @ + count[ci[t]]]
  /\ pc' = [pc EXCEPT ![t] = "CountRUnlock"]
  /\ UNCHANGED <<shardVars, lockVars, op, key, val, getVars, ci, keysVars,
                 histVars, obsVars, rt>>

\* CountRUnlock with the unlock deferred to the end of Count: the lock stays
\* held while the loop goes on
CountRUnlock_defer(t) ==
  /\ pc[t] = "CountRUnlock"
  /\ ci' = [ci EXCEPT ![t] = @ + 1]
  /\ pc' = [pc EXCEPT ![t] = "CountLoop"]
  /\ UNCHANGED <<shardVars, lockVars, op, key, val, getVars, cnt, keysVars,
                 histVars, obsVars, rt>>

\* shard.mu.RUnlock(); i++
CountRUnlock(t) ==
  /\ pc[t] = "CountRUnlock"
  /\ RUnlock(ci[t], Caller(t))
  /\ ci' = [ci EXCEPT ![t] = @ + 1]
  /\ pc' = [pc EXCEPT ![t] = "CountLoop"]
  /\ UNCHANGED <<shardVars, op, key, val, getVars, cnt, keysVars, histVars, obsVars, rt>>

\* i = len(m): return int64(count)
CountReturn(t) ==
  /\ pc[t] = "CountLoop"
  /\ ci[t] >= NShards
  /\ ci' = [ci EXCEPT ![t] = 0]
  /\ cnt' = [cnt EXCEPT ![t] = 0]
  /\ Return(t)
  /\ UNCHANGED <<shardVars, lockVars, getVars, keysVars>>
  /\ cnt0' = [cnt0 EXCEPT ![t] = 0]
  /\ UNCHANGED <<lastW, written, always, ever>>

\* ----------------------------------------------------------------- Keys
\* a client calls m.Keys(): keys := make([]K, 0); wg.Add(len(m)); the loop
\* starts one goroutine per shard.  The workers of the client's previous
\* Keys call have ended.
CallKeys(t) ==
  /\ pc[t] = "idle"
  /\ calls < MaxCalls
  /\ \A s \in Shards : wpc[t][s] = "none"
  /\ pc' = [pc EXCEPT ![t] = "Wait"]
  /\ op' = [op EXCEPT ![t] = "Keys"]
  /\ keys' = [keys EXCEPT ![t] = <<>>]
  /\ wg' = [wg EXCEPT ![t] = NShards]
  /\ kmu' = [kmu EXCEPT ![t] = {}]
  /\ wpc' = [wpc EXCEPT ![t] = [s \in Shards |-> "RLock"]]
  /\ Invoke(t, "Keys", NoKey)
  /\ UNCHANGED <<shardVars, lockVars, key, val, getVars, countVars, todo,
                 variant>>
  /\ always' = [always EXCEPT ![t] = PresentKeys]
  /\ ever' = [ever EXCEPT ![t] = PresentKeys]
  /\ UNCHANGED <<lastW, written, cnt0>>

\* worker: shard.mu.RLock(); in dmap.go the range loop on shard.items
\* starts right away
WorkerRLock(t, s) ==
  /\ wpc[t][s] = "RLock"
  /\ RLock(s, Worker(t, s))
  /\ IF variant = "part_000"
     THEN /\ wpc' = [wpc EXCEPT ![t][s] = "muLock"]
          /\ todo' = todo
     ELSE /\ wpc' = [wpc EXCEPT ![t][s] = "rangeK"]
          /\ todo' = [todo EXCEPT ![t][s] = DOMAIN items[s]]
  /\ UNCHANGED <<shardVars, callVars, getVars, countVars, keys, wg, kmu,
                 variant, histVars, obsVars, rt>>

\* WorkerMuLock of a closure that captures the loop variable: every worker
\* ranges over the last shard's items
WorkerMuLock_captured(t, s) ==
  /\ wpc[t][s] = "muLock"
  /\ kmu[t] = {}
  /\ kmu' = [kmu EXCEPT ![t] = @ \cup {Worker(t, s)}]
  /\ todo' = [todo EXCEPT ![t][s] = DOMAIN items[NShards - 1]]
  /\ wpc' = [wpc EXCEPT ![t][s] = "range"]
  /\ UNCHANGED <<shardVars, lockVars, callVars, getVars, countVars, keys, wg,
                 variant, histVars, obsVars, rt>>

\* part_000 worker: mu.Lock(); the range loop starts on shard.items
WorkerMuLock(t, s) ==
  /\ wpc[t][s] = "muLock"
  /\ kmu[t] = {}
  /\ kmu' = [kmu EXCEPT ![t] = @ \cup {Worker(t, s)}]
  /\ todo' = [todo EXCEPT ![t][s] = DOMAIN items[s]]
  /\ wpc' = [wpc EXCEPT ![t][s] = "range"]
  /\ UNCHANGED <<shardVars, lockVars, callVars, getVars, countVars, keys, wg,
                 variant, histVars, obsVars, rt>>

\* part_000 worker: one iteration of the range loop, keys = append(keys,
\* key); a Go map is ranged over in an unspecified order
WorkerAppend(t, s) ==
  /\ wpc[t][s] = "range"
  /\ \E k \in todo[t][s] :
       /\ keys' = [keys EXCEPT ![t] = Append(@, k)]
       /\ todo' = [todo EXCEPT ![t][s] = @ \ {k}]
  /\ UNCHANGED <<shardVars, lockVars, callVars, getVars, countVars, wg, kmu,
                 wpc, variant, histVars, obsVars, rt>>

\* WorkerMuUnlock of a range loop that may stop before the map is exhausted
WorkerMuUnlock_break(t, s) ==
  /\ wpc[t][s] = "range"
  /\ kmu' = [kmu EXCEPT ![t] = @ \ {Worker(t, s)}]
  /\ wpc' = [wpc EXCEPT ![t][s] = "Done"]
  /\ UNCHANGED <<shardVars, lockVars, callVars, getVars, countVars, keys, wg,
                 todo, variant, histVars, obsVars, rt>>

\* part_000 worker: the range loop is over; mu.Unlock()
WorkerMuUnlock(t, s) ==
  /\ wpc[t][s] = "range"
  /\ todo[t][s] = {}
  /\ kmu' = [kmu EXCEPT ![t] = @ \ {Worker(t, s)}]
  /\ wpc' = [wpc EXCEPT ![t][s] = "Done"]
  /\ UNCHANGED <<shardVars, lockVars, callVars, getVars, countVars, keys, wg,
                 todo, variant, histVars, obsVars, rt>>

\* dmap.go worker: the range loop yields a key; mu.Lock()
WorkerKeyLock(t, s) ==
  /\ wpc[t][s] = "rangeK"
  /\ todo[t][s] # {}
  /\ kmu[t] = {}
  /\ kmu' = [kmu EXCEPT ![t] = @ \cup {Worker(t, s)}]
  /\ wpc' = [wpc EXCEPT ![t][s] = "appendK"]
  /\ UNCHANGED <<shardVars, lockVars, callVars, getVars, countVars, keys, wg,
                 todo, variant, histVars, obsVars, rt>>

\* dmap.go worker: keys = append(keys, key); mu.Unlock()
WorkerKeyAppend(t, s) ==
  /\ wpc[t][s] = "appendK"
  /\ \E k \in todo[t][s] :
       /\ keys' = [keys EXCEPT ![t] = Append(@, k)]
       /\ todo' = [todo EXCEPT ![t][s] = @ \ {k}]
  /\ kmu' = [kmu EXCEPT ![t] = @ \ {Worker(t, s)}]
  /\ wpc' = [wpc EXCEPT ![t][s] = "rangeK"]
  /\ UNCHANGED <<shardVars, lockVars, callVars, getVars, countVars, wg,
                 variant, histVars, obsVars, rt>>

\* dmap.go worker: the range loop is over
WorkerRangeEnd(t, s) ==
  /\ wpc[t][s] = "rangeK"
  /\ todo[t][s] = {}
  /\ wpc' = [wpc EXCEPT ![t][s] = "Done"]
  /\ UNCHANGED <<shardVars, lockVars, callVars, getVars, countVars, keys, wg,
                 kmu, todo, variant, histVars, obsVars, rt>>

\* worker: wg.Done()
WorkerDone(t, s) ==
  /\ wpc[t][s] = "Done"
  /\ wg' = [wg EXCEPT ![t] = @ - 1]
  /\ wpc' = [wpc EXCEPT ![t][s] = "RUnlock"]
  /\ UNCHANGED <<shardVars, lockVars, callVars, getVars, countVars, keys,
                 kmu, todo, variant, histVars, obsVars, rt>>

\* worker: the goroutine ends, running the deferred shard.mu.RUnlock()
WorkerRUnlock(t, s) ==
  /\ wpc[t][s] = "RUnlock"
  /\ RUnlock(s, Worker(t, s))
  /\ wpc' = [wpc EXCEPT ![t][s] = "none"]
  /\ UNCHANGED <<shardVars, callVars, getVars, countVars, keys, wg, kmu,
                 todo, variant, histVars, obsVars, rt>>

\* wg.Wait() returns; return keys
KeysReturn(t) ==
  /\ pc[t] = "Wait"
  /\ wg[t] = 0
  /\ keys' = [keys EXCEPT ![t] = <<>>]
  /\ Return(t)
  /\ UNCHANGED <<shardVars, lockVars, getVars, countVars, wg, kmu, wpc, todo,
                 variant>>
  /\ always' = [always EXCEPT ![t] = {}]
  /\ ever' = [ever EXCEPT ![t] = {}]
  /\ UNCHANGED <<lastW, written, cnt0>>

\* ------------------------------------------------------ specification
Next ==
  \/ \E t \in Threads, o \in {"Get", "Has"}, k \in Key : CallGet(t, o, k)
  \/ \E t \in Threads : GetRLock(t)
  \/ \E t \in Threads : GetRead(t)
  \/ \E t \in Threads : GetReturn(t)
  \/ \E t \in Threads, k \in Key, x \in Val : CallSet(t, k, x)
  \/ \E t \in Threads : SetLock(t)
  \/ \E t \in Threads : SetLocked(t)
  \/ \E t \in Threads : SetBody(t)
  \/ \E t \in Threads : SetReturn(t)
  \/ \E t \in Threads, k \in Key : CallRemove(t, k)
  \/ \E t \in Threads : RemoveLock(t)
  \/ \E t \in Threads : RemoveLocked(t)
  \/ \E t \in Threads : RemoveBody(t)
  \/ \E t \in Threads : RemoveReturn(t)
  \/ \E t \in Threads : CallCount(t)
  \/ \E t \in Threads : CountRLock(t)
  \/ \E t \in Threads : CountRead(t)
  \/ \E t \in Threads : CountRUnlock(t)
  \/ \E t \in Threads : CountReturn(t)
  \/ \E t \in Threads : CallKeys(t)
  \/ \E t \in Threads, s \in Shards : WorkerRLock(t, s)
  \/ \E t \in Threads, s \in Shards : WorkerMuLock(t, s)
  \/ \E t \in Threads, s \in Shards : WorkerAppend(t, s)
  \/ \E t \in Threads, s \in Shards : WorkerMuUnlock(t, s)
  \/ \E t \in Threads, s \in Shards : WorkerKeyLock(t, s)
  \/ \E t \in Threads, s \in Shards : WorkerKeyAppend(t, s)
  \/ \E t \in Threads, s \in Shards : WorkerRangeEnd(t, s)
  \/ \E t \in Threads, s \in Shards : WorkerDone(t, s)
  \/ \E t \in Threads, s \in Shards : WorkerRUnlock(t, s)
  \/ \E t \in Threads : KeysReturn(t)

Spec == Init /\ [][Next]_vars

\* ------------------------------------------------------- definitions
\* the goroutines
Goroutines ==
  {Caller(t) : t \in Threads} \cup {Worker(t, s) : t \in Threads, s \in Shards}

\* the shards whose mu goroutine g holds
HeldBy(g) == {s \in Shards : g \in rheld[s] \cup wheld[s]}

\* the keys that a settled Set left in the map
LiveKeys == {k \in Key : last[k].st = "set"}

RECURSIVE SumOver(_, _)
SumOver(f, S) ==
  IF S = {} THEN 0
  ELSE LET x == CHOOSE y \in S : TRUE IN f[x] + SumOver(f, S \ {x})

\* Set calls invoked so far
TotalSets == SumOver(nSet, Key)

\* client t has run Set's body (Remove's body) in this step
SetBodyStep(t) == pc[t] = "Body" /\ op[t] = "Set" /\ pc'[t] = "Unlock"

RemoveBodyStep(t) == pc[t] = "Body" /\ op[t] = "Remove" /\ pc'[t] = "Unlock"

\* client t's Get (or Has) has read the map and is about to return v, ok
GetDone(t) == pc[t] = "RUnlock"

\* client t's Count has left its loop and is about to return count
CountDone(t) == pc[t] = "CountLoop" /\ ci[t] >= NShards

\* client t's Keys has passed wg.Wait() and is about to return keys
KeysDone(t) == pc[t] = "Wait" /\ wg[t] = 0

\* ------------------------------------------------------------------ C1
\* C1: in every reachable state, a shard whose lock is not held has count
\* equal to the number of entries of its items map.
C1_CountEqualsItems ==
  \A s \in Shards :
    (rheld[s] = {} /\ wheld[s] = {}) => count[s] = Cardinality(DOMAIN items[s])

\* ------------------------------------------------------------------ C2
\* C2: Set increments the target shard's count by one if and only if the
\* key was not yet in the shard; a Set of a present key replaces the value
\* and leaves the count unchanged.
C2_SetCountsNewKeysOnly ==
  [][\A t \in Threads :
       SetBodyStep(t) =>
         LET s == getShardIndex(key[t])
         IN  /\ items'[s][key[t]] = val[t]
             /\ count'[s] = count[s]
                            + (IF key[t] \in DOMAIN items[s] THEN 0 ELSE 1)]_vars

\* ------------------------------------------------------------------ C3
\* C3: Remove decreases the target shard's count by one when the key was
\* present; when the key is absent it leaves every shard's items and count
\* unchanged.
C3_RemoveDecrements ==
  [][\A t \in Threads :
       RemoveBodyStep(t) =>
         LET s == getShardIndex(key[t])
         IN  IF key[t] \in DOMAIN items[s]
             THEN count'[s] = count[s] - 1
             ELSE items' = items /\ count' = count]_vars

\* ------------------------------------------------------------------ C4
\* C4: when the only calls so far were Sets of pairwise distinct keys on
\* the initially empty map, and all of them returned before Count was
\* invoked and none was invoked since, Count returns the number of Sets.
C4_ConcurrentSetsCounted ==
  \A t \in Threads :
    (/\ CountDone(t)
     /\ quiet[t]
     /\ \A k \in Key : nSet[k] <= 1 /\ nRem[k] = 0)
    => cnt[t] = TotalSets

\* two Sets of distinct keys of one shard overlapped, and a Count that
\* started after both had returned is about to return
C4_Witness ==
  \E t \in Threads :
    /\ CountDone(t)
    /\ quiet[t]
    /\ overlap
    /\ \A k \in Key : nSet[k] <= 1 /\ nRem[k] = 0
    /\ \E k1, k2 \in Key :
         /\ k1 # k2
         /\ getShardIndex(k1) = getShardIndex(k2)
         /\ nSet[k1] = 1
         /\ nSet[k2] = 1

\* ------------------------------------------------------------------ C5
\* C5: once Set(K, V) has returned and as long as no Set or Remove of K is
\* invoked again, every Get(K) returns (V, true), whatever Sets and Removes
\* of other keys take place.
C5_RoundTrip ==
  \A t \in Threads :
    (GetDone(t) /\ last[key[t]].st = "set")
    => (v[t] = last[key[t]].v /\ ok[t] = TRUE)

\* a Get of a settled key is about to return a non-zero value, after a Set
\* or Remove of another key of the same shard has returned
C5_Witness ==
  \E t \in Threads :
    /\ GetDone(t)
    /\ op[t] = "Get"
    /\ last[key[t]] = WasSet(1)
    /\ v[t] = 1
    /\ \E k \in Key \ {key[t]} :
         /\ getShardIndex(k) = getShardIndex(key[t])
         /\ last[k].st \in {"set", "removed"}

\* ------------------------------------------------------------------ C6
\* C6: once Remove(K) has returned and as long as K is not Set again, Get(K)
\* returns (zero value, false) and Has(K) false; and Remove changes the
\* mapping of no key other than K.
C6_Removal ==
  /\ [](\A t \in Threads :
          (GetDone(t) /\ last[key[t]].st = "removed")
          => (v[t] = 0 /\ ok[t] = FALSE))
  /\ [][\A t \in Threads :
          RemoveBodyStep(t) =>
            \A s \in Shards, k \in Key \ {key[t]} :
              /\ (k \in DOMAIN items'[s]) = (k \in DOMAIN items[s])
              /\ k \in DOMAIN items[s] => items'[s][k] = items[s][k]]_vars

\* a Get of a key that was Set and then Removed is about to return
C6_Witness ==
  \E t \in Threads :
    /\ GetDone(t)
    /\ op[t] = "Get"
    /\ last[key[t]].st = "removed"
    /\ nSet[key[t]] > 0
    /\ nRem[key[t]] > 0

\* ------------------------------------------------------------------ C7
\* C7: a Keys call that no Set or Remove overlaps returns a sequence that
\* holds every live key exactly once and nothing else, however its workers
\* interleave.
C7_KeysExactlyOnce ==
  \A t \in Threads :
    (KeysDone(t) /\ quiet[t])
    => /\ Len(keys[t]) = Cardinality(LiveKeys)
       /\ {keys[t][n] : n \in 1..Len(keys[t])} = LiveKeys

\* a quiet Keys call is about to return keys of two different shards
C7_Witness ==
  \E t \in Threads :
    /\ KeysDone(t)
    /\ quiet[t]
    /\ \E n1, n2 \in 1..Len(keys[t]) :
         getShardIndex(keys[t][n1]) # getShardIndex(keys[t][n2])

\* ------------------------------------------------------------------ C8
\* C8: a key stored in shard i has getShardIndex(key) = i, so every key is
\* in at most one shard's items map.
C8_KeyInItsShard ==
  /\ \A s \in Shards : \A k \in DOMAIN items[s] : getShardIndex(k) = s
  /\ \A k \in Key : Cardinality({s \in Shards : k \in DOMAIN items[s]}) <= 1

\* two shards hold keys, one of them two keys
C8_Witness ==
  /\ \E s \in Shards : Cardinality(DOMAIN items[s]) >= 2
  /\ Cardinality({s \in Shards : DOMAIN items[s] # {}}) >= 2

\* ------------------------------------------------------------------ C9
\* the goroutines inside a critical section of shard s, by their position
Writers(s) ==
  {Caller(t) : t \in {u \in Threads : /\ pc[u] \in {"Body", "Unlock"}
                                      /\ getShardIndex(key[u]) = s}}

Readers(s) ==
  {Caller(t) : t \in {u \in Threads :
                        \/ /\ pc[u] \in {"Read", "RUnlock"}
                           /\ getShardIndex(key[u]) = s
                        \/ /\ pc[u] \in {"CountRead", "CountRUnlock"}
                           /\ ci[u] = s}}
  \cup {Worker(t, s) : t \in {u \in Threads :
                                wpc[u][s] \in {"muLock", "range", "rangeK",
                                               "appendK", "Done", "RUnlock"}}}

\* C9: for every shard, items and count are written only by a goroutine
\* holding the shard's exclusive lock, at most one goroutine holds the
\* exclusive lock, and none holds the read lock while one holds the
\* exclusive lock.
C9_LockDiscipline ==
  /\ [](\A s \in Shards :
          /\ Writers(s) = wheld[s]
          /\ Readers(s) = rheld[s]
          /\ Cardinality(Writers(s)) <= 1
          /\ Writers(s) # {} => Readers(s) = {})
  /\ [][\A s \in Shards :
          (items'[s] # items[s] \/ count'[s] # count[s])
          => \E t \in Threads :
               /\ pc'[t] # pc[t]
               /\ Caller(t) \in wheld[s]
               /\ Caller(t) \in wheld'[s]]_vars

\* a Set is inside its critical section while a Get of the same shard waits
\* in RLock and a worker reads the other shard
C9_Witness ==
  \E t, u \in Threads, s \in Shards :
    /\ pc[t] = "Unlock"
    /\ op[t] = "Set"
    /\ pc[u] = "RLock"
    /\ getShardIndex(key[u]) = getShardIndex(key[t])
    /\ s # getShardIndex(key[t])
    /\ rheld[s] # {}

\* ----------------------------------------------------------------- C10
\* the shards locked by client t's call, its Keys workers included
OpHolds(t) == HeldBy(Caller(t)) \cup UNION {HeldBy(Worker(t, s)) : s \in Shards}

\* C10 as stated: an operation, Keys counted together with its workers,
\* holds at most one shard's lock at any instant.
C10_OneLockPerOperation ==
  \A t \in Threads : Cardinality(OpHolds(t)) <= 1

\* C10 as amended: no goroutine holds more than one shard's lock at any
\* instant; a point operation holds its target shard's lock only, Count
\* only the lock of the shard it is visiting, the caller of Keys none and
\* each Keys worker only its own shard's.
C10_OneLockPerGoroutine ==
  /\ \A g \in Goroutines : Cardinality(HeldBy(g)) <= 1
  /\ \A t \in Threads :
       /\ op[t] \in {"Get", "Has", "Set", "Remove"}
            => HeldBy(Caller(t)) \subseteq {getShardIndex(key[t])}
       /\ pc[t] \in {"Read", "RUnlock", "Body", "Unlock"}
            => HeldBy(Caller(t)) = {getShardIndex(key[t])}
       /\ op[t] = "Count" => HeldBy(Caller(t)) \subseteq {ci[t]}
       /\ pc[t] = "CountRead" => HeldBy(Caller(t)) = {ci[t]}
       /\ op[t] \in {"Keys", "none"} => HeldBy(Caller(t)) = {}
       /\ \A s \in Shards : HeldBy(Worker(t, s)) \subseteq {s}

\* a Count is reading its second shard while the workers of a Keys call
\* hold two shards' read locks
C10_Witness ==
  \E t, u \in Threads :
    /\ pc[t] = "CountRead"
    /\ ci[t] = 1
    /\ op[u] = "Keys"
    /\ Cardinality(OpHolds(u)) >= 2

\* ----------------------------------------------------------------- C11
\* the worker of t's Keys call for shard s is about to call, or is inside,
\* mu.Lock()
WantsMu(t, s) ==
  \/ wpc[t][s] = "muLock"
  \/ wpc[t][s] = "rangeK" /\ todo[t][s] # {}

\* that worker cannot go on: another worker of the call holds mu
BlockedOnMu(t, s) == WantsMu(t, s) /\ kmu[t] \ {Worker(t, s)} # {}

\* client t is inside RLock() or Lock() of shard s
WaitsForShard(t, s) ==
  \/ pc[t] \in {"RLock", "Lock", "LockWait"} /\ getShardIndex(key[t]) = s
  \/ pc[t] = "CountLoop" /\ ci[t] = s

\* client t is inside RLock() or Lock() of shard s and cannot return from it
BlockedOnShard(t, s) ==
  /\ WaitsForShard(t, s)
  /\ IF pc[t] = "LockWait" THEN rheld[s] # {} ELSE wheld[s] \cup wpend[s] # {}

\* C11: no goroutine waits for or acquires another lock while it holds a
\* shard's lock, so a call blocked on shard s's lock waits only on holders
\* of that lock that are themselves not blocked.
C11_LocksNeverNested ==
  /\ \A t \in Threads, s \in Shards :
       Worker(t, s) \in rheld[s]
       => (~WantsMu(t, s) /\ Worker(t, s) \notin kmu[t])
  /\ \A t \in Threads :
       HeldBy(Caller(t)) # {} => \A s \in Shards : ~WaitsForShard(t, s)
  /\ \A t, u \in Threads, s \in Shards :
       (BlockedOnShard(t, s) /\ Worker(u, s) \in rheld[s])
       => ~BlockedOnMu(u, s)

\* ----------------------------------------------------------------- C12
\* the steps client t takes inside a call
ThreadStep(t) ==
  \/ GetRLock(t) \/ GetRead(t) \/ GetReturn(t)
  \/ SetLock(t) \/ SetLocked(t) \/ SetBody(t) \/ SetReturn(t)
  \/ RemoveLock(t) \/ RemoveLocked(t) \/ RemoveBody(t) \/ RemoveReturn(t)
  \/ CountRLock(t) \/ CountRead(t) \/ CountRUnlock(t) \/ CountReturn(t)
  \/ KeysReturn(t)

\* the steps of the worker of t's Keys call for shard s
WorkerStep(t, s) ==
  \/ WorkerRLock(t, s) \/ WorkerMuLock(t, s) \/ WorkerAppend(t, s)
  \/ WorkerMuUnlock(t, s) \/ WorkerKeyLock(t, s) \/ WorkerKeyAppend(t, s)
  \/ WorkerRangeEnd(t, s) \/ WorkerDone(t, s) \/ WorkerRUnlock(t, s)

\* the Go scheduler runs every goroutine that can run
Fairness ==
  /\ \A t \in Threads : WF_vars(ThreadStep(t))
  /\ \A t \in Threads, s \in Shards : WF_vars(WorkerStep(t, s))

FairSpec == Init /\ [][Next]_vars /\ Fairness

\* a call is in flight or a worker goroutine is alive
Busywork ==
  \/ \E t \in Threads : pc[t] # "idle"
  \/ \E t \in Threads, s \in Shards : wpc[t][s] # "none"

\* some goroutine can take a step
CanStep ==
  \/ \E t \in Threads : ENABLED ThreadStep(t)
  \/ \E t \in Threads, s \in Shards : ENABLED WorkerStep(t, s)

\* C12: no reachable state is a deadlock, under fair scheduling every call
\* returns, and when a call returns every lock it acquired, its workers'
\* included, is released.
C12_CallsReturnUnlocked ==
  /\ [](Busywork => CanStep)
  /\ \A t \in Threads : (pc[t] # "idle") ~> (pc[t] = "idle")
  /\ [][\A t \in Threads :
          (pc[t] # "idle" /\ pc'[t] = "idle") => OpHolds(t)' = {}]_vars

\* ------------------------------------------- routing on its own
\* the largest small shard count tried
MaxCount == 3

\* the shard counts given to New: negative, zero, small, and around the
\* number of values of the hash
ShardCounts == (-1..MaxCount) \cup {HashSpace, HashSpace + 1}

Byte == 0..(HashSpace - 1)

\* a shard count and the two checksum bytes of a key
RouteInit ==
  /\ New
  /\ pc = [t \in Threads |-> "idle"]
  /\ op = [t \in Threads |-> "none"]
  /\ key = [t \in Threads |-> NoKey]
  /\ val = [t \in Threads |-> 0]
  /\ v = [t \in Threads |-> 0]
  /\ ok = [t \in Threads |-> FALSE]
  /\ ci = [t \in Threads |-> 0]
  /\ cnt = [t \in Threads |-> 0]
  /\ keys = [t \in Threads |-> <<>>]
  /\ wg = [t \in Threads |-> 0]
  /\ kmu = [t \in Threads |-> {}]
  /\ wpc = [t \in Threads |-> [s \in Shards |-> "none"]]
  /\ todo = [t \in Threads |-> [s \in Shards |-> {}]]
  /\ variant = "part_000"
  /\ calls = 0
  /\ nSet = [k \in Key |-> 0]
  /\ nRem = [k \in Key |-> 0]
  /\ last = [k \in Key |-> Never]
  /\ quiet = [t \in Threads |-> FALSE]
  /\ overlap = FALSE
  /\ lastW = [k \in Key |-> -1]
  /\ written = [k \in Key |-> {}]
  /\ always = [t \in Threads |-> {}]
  /\ ever = [t \in Threads |-> {}]
  /\ cnt0 = [t \in Threads |-> 0]
  /\ rt \in [st : {"start"}, n : ShardCounts, c7 : Byte, c19 : Byte,
             idx : {-1}]

mapVars == <<items, count, rheld, wheld, wpend, pc, op, key, val, v, ok, ci,
             cnt, keys, wg, kmu, wpc, todo, variant, calls, nSet, nRem, last,
             quiet, overlap, lastW, written, always, ever, cnt0>>

\* New(nShards): make([]*Shard[K, V], nShards) panics for a negative length;
\* any other nShards, 0 included, gives a DMap of that length
RouteNew ==
  /\ rt.st = "start"
  /\ rt' = [rt EXCEPT !.st = IF rt.n < 0 THEN "newPanic" ELSE "built"]
  /\ UNCHANGED mapVars

\* getShard(key) on the constructed map: hash % len(m) panics for len(m) = 0
\* (integer divide by zero), m[i] panics for an i outside 0..len(m)-1
RouteGetShard ==
  /\ rt.st = "built"
  /\ IF rt.n = 0
     THEN rt' = [rt EXCEPT !.st = "dividePanic"]
     ELSE LET i == ShardIndexOf(rt.c7, rt.c19, rt.n)
          IN  rt' = [rt EXCEPT !.idx = i,
                               !.st = IF i \in 0..(rt.n - 1) THEN "routed"
                                      ELSE "indexPanic"]
  /\ UNCHANGED mapVars

RouteNext == RouteNew \/ RouteGetShard

RouteSpec == RouteInit /\ [][RouteNext]_vars

\* ----------------------------------------------------------------- C13
\* C13: constructing a map with a shard count of 0 or less fails at
\* construction; it never yields a map on which a later call fails.
C13_BadCountFailsInNew ==
  rt.n <= 0 => rt.st \in {"start", "newPanic"}

\* ----------------------------------------------------------------- C14
\* C14: for all values of checksum[7] and checksum[19] and every shard
\* count N >= 1, getShardIndex returns an i with 0 <= i < N.
C14_IndexInRange ==
  (rt.n >= 1 /\ rt.st \notin {"start", "built"})
  => (rt.st = "routed" /\ rt.idx >= 0 /\ rt.idx < rt.n)

\* a key whose checksum[7] loses its top bit in the shift has been routed
\* in a map of three shards
C14_Witness ==
  /\ rt.st = "routed"
  /\ rt.n = 3
  /\ rt.c7 = 255
  /\ rt.c19 = 1
  /\ rt.idx = 0

\* ----------------------------------------------------------------- C20
\* C20: the hash is (checksum[7] * 2 mod 256) OR checksum[19], a value in
\* 0..255, so the index is below min(N, 256); every index below min(N, 256)
\* is produced (by checksum[7] = 0 or 128 and checksum[19] = the index), and
\* for N > 256 no key is routed to a shard with index 256 or more.
C20_HashIsEightBit ==
  (rt.n >= 1 /\ rt.st \notin {"start", "built"})
  => LET lim == IF rt.n < HashSpace THEN rt.n ELSE HashSpace
         sh == (rt.c7 * 2) % HashSpace
     IN  /\ rt.st = "routed"
         /\ rt.idx >= 0
         /\ rt.idx < lim
         /\ (sh = 0 /\ rt.c19 < lim) => rt.idx = rt.c19
         /\ rt.n >= HashSpace
              => /\ rt.idx >= sh
                 /\ rt.idx >= rt.c19
                 /\ rt.idx <= sh + rt.c19
                 /\ rt.idx % 2 = rt.c19 % 2

\* in a map of 257 shards a key with both checksum bytes 255 is routed to
\* shard 255
C20_Witness ==
  /\ rt.st = "routed"
  /\ rt.n = HashSpace + 1
  /\ rt.c7 = 255
  /\ rt.c19 = 255
  /\ rt.idx = 255

\* ----------------------------------------------------------------- C16
\* C16: Has(key) returns the found-flag Get(key) returns in that state, true
\* for a key that was Set and not Removed, false for a key never Set; and
\* Has, like Get, leaves every shard's items and count unchanged.
C16_HasIsGetFound ==
  /\ [](\A t \in Threads :
          (GetDone(t) /\ op[t] = "Has")
          => /\ ok[t] = (key[t] \in DOMAIN items[getShardIndex(key[t])])
             /\ last[key[t]].st = "set" => ok[t] = TRUE
             /\ last[key[t]].st = "never" => ok[t] = FALSE)
  /\ [][\A t \in Threads :
          (/\ op[t] \in {"Get", "Has"} \/ op'[t] \in {"Get", "Has"}
           /\ pc'[t] # pc[t])
          => (items' = items /\ count' = count)]_vars

\* one Has is about to return true for a key that was Set, another false
\* for a key never Set
C16_Witness ==
  \E t, u \in Threads :
    /\ GetDone(t) /\ op[t] = "Has"
    /\ last[key[t]].st = "set" /\ ok[t] = TRUE
    /\ GetDone(u) /\ op[u] = "Has"
    /\ last[key[u]].st = "never" /\ ok[u] = FALSE

\* ----------------------------------------------------------------- C17
\* C17: New(N) yields exactly N shards, each with an empty items map and
\* count 0, so that Count() is 0 and Keys() empty on the new map; and no
\* operation changes the number of shards.
C17_NewShards ==
  /\ \A s \in DOMAIN items : items[s] = EmptyMap /\ count[s] = 0
  /\ [](/\ Cardinality(DOMAIN items) = NShards
        /\ DOMAIN count = DOMAIN items
        /\ \A t \in Threads :
             /\ (CountDone(t) /\ TotalSets = 0) => cnt[t] = 0
             /\ (KeysDone(t) /\ TotalSets = 0) => keys[t] = <<>>)

\* after the last call the map still has its shards, with keys in them
C17_Witness ==
  /\ calls = MaxCalls
  /\ \A t \in Threads : pc[t] = "idle"
  /\ Cardinality(DOMAIN items) = NShards
  /\ \E s \in DOMAIN items : items[s] # EmptyMap

\* ----------------------------------------------------------------- C15
\* C15: last-writer-wins.  A Get(k) that runs with no Set or Remove in
\* flight, after Set calls of k (concurrent ones included) of which one was
\* the last call to take the shard's exclusive lock for k, is about to
\* return (v, true) with v the val of that Set; and whatever value is stored
\* under k is one of the vals given to the Set calls of k.
C15_LastWriterWins ==
  /\ \A t \in Threads :
        GetDone(t) /\ quiet[t] /\ lastW[key[t]] # -1 =>
          ok[t] /\ v[t] = lastW[key[t]]
  /\ \A s \in Shards : \A k \in DOMAIN items[s] : items[s][k] \in written[k]

\* two Set calls of one key with different vals overlapped, both returned,
\* and a Get of the key that ran alone is about to return the last one's val
C15_Witness ==
  \E t \in Threads :
    /\ GetDone(t) /\ quiet[t] /\ overlap
    /\ nSet[key[t]] = 2 /\ nRem[key[t]] = 0
    /\ Cardinality(written[key[t]]) = 2
    /\ ok[t] /\ v[t] = lastW[key[t]]

\* ----------------------------------------------------------------- C18
\* the keys in the sequence that client t's Keys call is building
Returned(t) == {keys[t][n] : n \in 1..Len(keys[t])}

\* a step of a Keys call or of one of its workers
KeysStep == keys' # keys \/ wpc' # wpc \/ wg' # wg \/ kmu' # kmu

\* C18: a Keys call, whatever Set and Remove calls run beside it, is about
\* to return a sequence without repetitions that holds every key present all
\* through the call and no key absent all through the call; and no step of
\* a Keys call or of its workers changes a shard's items or count.
C18_KeysWeaklyConsistent ==
  /\ [](\A t \in Threads :
          KeysDone(t) =>
            /\ Cardinality(Returned(t)) = Len(keys[t])
            /\ always[t] \subseteq Returned(t)
            /\ Returned(t) \subseteq ever[t])
  /\ [][KeysStep => UNCHANGED <<items, count>>]_vars

\* a Keys call that a Set overlapped is about to return: one key was there
\* all through the call, another appeared during it
C18_Witness ==
  \E t \in Threads :
    /\ KeysDone(t) /\ ~quiet[t]
    /\ always[t] # {}
    /\ always[t] # ever[t]
    /\ always[t] \subseteq Returned(t)

\* ----------------------------------------------------------------- C19
\* client t is inside Count, before and after the step
InCount(t) == op[t] = "Count" /\ op'[t] = "Count"

\* every Set so far was of a key of its own, and nothing was removed
OnlyNewKeys == \A k \in Key : nSet[k] <= 1 /\ nRem[k] = 0

\* C19: Count goes through the shards in index order, adding to its sum the
\* count of the shard whose read lock it holds at that step; and when the
\* only mutations are Set calls of distinct new keys, the sum it is about to
\* return is at least the total count at its invocation and at most the
\* total count now.
C19_CountBounds ==
  /\ [](\A t \in Threads :
          CountDone(t) /\ OnlyNewKeys =>
            cnt0[t] <= cnt[t] /\ cnt[t] <= TotalCount)
  /\ [](\A t \in Threads : op[t] = "Count" => ci[t] \in 0..NShards)
  /\ [][\A t \in Threads :
          InCount(t) =>
            /\ cnt'[t] # cnt[t] \/ (pc[t] = "CountRead" /\ pc'[t] # pc[t]) =>
                  /\ pc[t] = "CountRead"
                  /\ Caller(t) \in rheld[ci[t]]
                  /\ HeldBy(Caller(t)) = {ci[t]}
                  /\ cnt'[t] = cnt[t] + count[ci[t]]
            /\ ci'[t] # ci[t] =>
                  pc[t] = "CountRUnlock" /\ ci'[t] = ci[t] + 1]_vars

\* a Count that two Sets of new keys overlapped is about to return: it saw
\* one of them and missed the other
C19_Witness ==
  \E t \in Threads :
    /\ CountDone(t) /\ ~quiet[t] /\ OnlyNewKeys
    /\ cnt0[t] < cnt[t]
    /\ cnt[t] < TotalCount

====
